---- MODULE Spec2Model ----
(***************************************************************************)
(* A model of src/main.rs: the tree-walking evaluator `interpret`, the     *)
(* environment `Context` with its scoped `with_var`, the host builtins of  *)
(* `initialize`, and the fixed-point driver `compile`.                     *)
(*                                                                         *)
(* `interpret` is recursive; the model makes its call stack explicit.      *)
(* Every activation of `interpret` is one frame of `stack`; `ret` is the   *)
(* Result handed from a callee that has just returned to its caller.       *)
(***************************************************************************)
EXTENDS Naturals, Sequences, FiniteSets, TLC

(* ------------------------------------------------------------------ *)
(* Bounds of the model                                                  *)
(* ------------------------------------------------------------------ *)

\* Number of nested activations of `interpret` the native stack can hold.
MaxDepth == 40

\* The iteration budget of compile: `for i in 0..5`.
MaxIterations == 5

(* ------------------------------------------------------------------ *)
(* enum Value, enum Ast, enum Error                                     *)
(* ------------------------------------------------------------------ *)

\* Placeholder for a local that has not been assigned.
NoValue == [tag |-> "None"]

FixV == [tag |-> "Fix"]
BuiltinFunction(name) == [tag |-> "BuiltinFunction", name |-> name]
BuiltinValue(id) == [tag |-> "BuiltinValue", id |-> id]
\* Function(Rc<RefCell<Context>>, Variable, Box<Ast>): `cell` is the identity
\* of the shared RefCell.
Function(cell, var, body) == [tag |-> "Function", cell |-> cell, var |-> var, body |-> body]
Bool(b) == [tag |-> "Bool", b |-> b]
Int(n) == [tag |-> "Int", n |-> n]
String(s) == [tag |-> "String", s |-> s]

Lambda(var, body) == [tag |-> "Lambda", var |-> var, body |-> body]
Fix == [tag |-> "Fix"]
Application(f, x) == [tag |-> "Application", f |-> f, x |-> x]
Variable(var) == [tag |-> "Variable", var |-> var]
Const(val) == [tag |-> "Const", val |-> val]
Cond(c, t, e) == [tag |-> "Cond", cond |-> c, then |-> t, else |-> e]

NotInScope(var) == [tag |-> "NotInScope", var |-> var]
NotACallableValue(val) == [tag |-> "NotACallableValue", val |-> val]
NotABoolValue(val) == [tag |-> "NotABoolValue", val |-> val]

\* Result<Value, Error> as handed from callee to caller; "none" while a
\* callee is still running.
NoRet == [kind |-> "none", v |-> NoValue]
Ok(v) == [kind |-> "ok", v |-> v]
Err(e) == [kind |-> "err", v |-> e]

(* ------------------------------------------------------------------ *)
(* struct Context(HashMap<Variable, Value>)                             *)
(* ------------------------------------------------------------------ *)

ContextNew == [v \in {} |-> NoValue]

\* HashMap::insert: the map with `var` bound to `value`.
MapInsert(m, var, value) ==
    [v \in (DOMAIN m) \cup {var} |-> IF v = var THEN value ELSE m[v]]

\* HashMap::remove
MapRemove(m, var) == [v \in (DOMAIN m) \ {var} |-> m[v]]

\* Context::lookup
Lookup(m, var) == IF var \in DOMAIN m THEN Ok(m[var]) ELSE Err(NotInScope(var))

\* with_var, before `func` runs: the saved previous binding (Option<Value>).
WithVarSave(m, var) ==
    IF var \in DOMAIN m THEN [some |-> TRUE, val |-> m[var]]
                        ELSE [some |-> FALSE, val |-> NoValue]

\* with_var, before `func` runs: the context passed to `func`.
WithVarEnter(m, var, value) == MapInsert(m, var, value)

\* Variant of WithVarExit that leaves a binding that had no predecessor.
WithVarExitKeep(m, var, save) ==
    IF save.some THEN MapInsert(m, var, save.val) ELSE m

\* with_var, after `func` returned: reinstall the saved binding or remove.
WithVarExit(m, var, save) ==
    IF save.some THEN MapInsert(m, var, save.val) ELSE MapRemove(m, var)

(* ------------------------------------------------------------------ *)
(* fn initialize                                                        *)
(* ------------------------------------------------------------------ *)

BuiltinNames == {"content", "location", "size", "percent"}

InitialContext ==
    [v \in {"true", "false"} \cup BuiltinNames |->
        CASE v = "true" -> Bool(TRUE)
          [] v = "false" -> Bool(FALSE)
          [] OTHER -> BuiltinFunction(v)]

InitialState(expected_document_size) ==
    [content |-> <<>>, document_size |-> expected_document_size]

\* Variant of BuiltinContent that puts the new entry in front of the log.
BuiltinContentPrepend(input, st) ==
    IF input.tag = "String"
    THEN [panic |-> "none", ret |-> Ok(String(input.s)),
          state |-> [st EXCEPT !.content = <<input.s>> \o @]]
    ELSE [panic |-> "not yet implemented", ret |-> NoRet, state |-> st]

\* Variant of BuiltinContent that also grows the host parameter.
BuiltinContentGrows(input, st) ==
    IF input.tag = "String"
    THEN [panic |-> "none", ret |-> Ok(String(input.s)),
          state |-> [st EXCEPT !.content = Append(@, input.s),
                               !.document_size = @ + 1]]
    ELSE [panic |-> "not yet implemented", ret |-> NoRet, state |-> st]

\* The `content` builtin (a non-string input reaches todo!(), a panic).
BuiltinContent(input, st) ==
    IF input.tag = "String"
    THEN [panic |-> "none", ret |-> Ok(String(input.s)),
          state |-> [st EXCEPT !.content = Append(@, input.s)]]
    ELSE [panic |-> "not yet implemented", ret |-> NoRet, state |-> st]

\* The `location` builtin.
BuiltinLocation(input, st) ==
    [panic |-> "none", ret |-> Ok(Int(Len(st.content))), state |-> st]

\* The `size` builtin.
BuiltinSize(input, st) ==
    [panic |-> "none", ret |-> Ok(Int(st.document_size)), state |-> st]

\* The `percent` builtin: k / n on i64 panics when n = 0.
BuiltinPercent(input, st) ==
    IF st.document_size = 0
    THEN [panic |-> "attempt to divide by zero", ret |-> NoRet, state |-> st]
    ELSE [panic |-> "none", ret |-> Ok(Int(Len(st.content) \div st.document_size)),
          state |-> st]

\* func(arg, state) for the closure registered under `name`.
CallBuiltin(name, input, st) ==
    CASE name = "content" -> BuiltinContent(input, st)
      [] name = "location" -> BuiltinLocation(input, st)
      [] name = "size" -> BuiltinSize(input, st)
      [] name = "percent" -> BuiltinPercent(input, st)

(* ------------------------------------------------------------------ *)
(* Programs handed to compile                                           *)
(* ------------------------------------------------------------------ *)

\* Sequencing by application: `first` is the argument, so it runs first.
Then(first, second) == Application(Lambda("_", second), first)

Emit(s) == Application(Variable("content"), Const(String(s)))

\* content "x" followed by location
ProgContentLocation == Then(Emit("x"), Application(Variable("location"), Const(Int(0))))
ProgLocationOfContent == Application(Variable("location"), Emit("x"))
ProgEmitThree == Then(Emit("a"), Then(Emit("b"), Then(Application(Variable("location"), Const(Int(0))), Emit("c"))))
ProgUndefined == Variable("undefined_var")
ProgUndefinedLate == Then(Emit("x"), Variable("undefined_var"))
ProgCondInt == Cond(Const(Int(1)), Const(String("a")), Const(String("b")))
ProgCondIntEffects == Cond(Const(Int(1)), Emit("t"), Emit("e"))
ProgCondTrue == Cond(Variable("true"), Emit("t"), Emit("e"))
ProgCondFalse == Cond(Variable("false"), Emit("t"), Emit("e"))
ProgCondEffect == Cond(Then(Emit("c"), Variable("false")), Emit("t"), Emit("e"))
ProgCondFunction == Cond(Lambda("x", Variable("x")), Emit("t"), Emit("e"))
ProgCondError == Cond(Variable("undefined_var"), Emit("t"), Emit("e"))

\* The function side logs "F" and yields `content`; the argument logs "X".
ProgOrder == Application(Then(Emit("F"), Variable("content")), Emit("X"))
ProgOrderArgFails == Application(Then(Emit("F"), Variable("content")), Variable("undefined_var"))
ProgOrderFnFails == Application(Variable("undefined_var"), Emit("X"))

ProgNotCallableInt == Application(Const(Int(1)), Const(Int(2)))
ProgNotCallableOpaque == Application(Const(BuiltinValue(1)), Emit("x"))
ProgSize == Application(Variable("size"), Const(Int(0)))
ProgPercent == Then(Emit("x"), Application(Variable("percent"), Const(Int(0))))
ProgContentInt == Application(Variable("content"), Const(Int(1)))

\* Shadowing: x is bound to "a", then rebound to "b" in the inner closure.
ProgShadow ==
    Application(
        Lambda("x", Then(Application(Lambda("x", Application(Variable("content"), Variable("x"))),
                                     Const(String("b"))),
                         Application(Variable("content"), Variable("x")))),
        Const(String("a")))
ProgShadowError ==
    Application(
        Lambda("x", Application(Lambda("x", Variable("undefined_var")), Const(String("b")))),
        Const(String("a")))

\* mk = \x. \u. x; c1 = mk "a"; c2 = mk "b"; emit c1, c2, c1, c2.
MakeClosure == Lambda("x", Lambda("u", Variable("x")))
Force(c) == Application(Variable("content"), Application(Variable(c), Const(Int(0))))
ProgClosures ==
    Application(
        Lambda("mk",
            Application(
                Lambda("c1",
                    Application(
                        Lambda("c2", Then(Force("c1"), Then(Force("c2"), Then(Force("c1"), Force("c2"))))),
                        Application(Variable("mk"), Const(String("b"))))),
                Application(Variable("mk"), Const(String("a"))))),
        MakeClosure)
ProgClosuresReversed ==
    Application(
        Lambda("mk",
            Application(
                Lambda("c1",
                    Application(
                        Lambda("c2", Then(Force("c2"), Then(Force("c1"), Force("c2")))),
                        Application(Variable("mk"), Const(String("b"))))),
                Application(Variable("mk"), Const(String("a"))))),
        MakeClosure)

\* (\f. f f) (\x. x 1): the closure receives itself and applies it.
ProgReentrant ==
    Application(Lambda("f", Application(Variable("f"), Variable("f"))),
                Lambda("x", Application(Variable("x"), Const(Int(1)))))
\* (\f. f f) (\x. x): the closure receives itself and only returns it.
ProgSelfArgument ==
    Application(Lambda("f", Application(Variable("f"), Variable("f"))),
                Lambda("x", Variable("x")))

\* Scott numerals: zero = \s. \z. z; succ n = \s. \z. s n.
Zero == Lambda("s", Lambda("z", Variable("z")))
Succ(n) ==
    Application(Lambda("n", Lambda("s", Lambda("z", Application(Variable("s"), Variable("n"))))), n)
Three == Succ(Succ(Succ(Zero)))

\* A factorial-style step function: \self. \n. case n of
\*   zero -> "1";  succ p -> emit "*" then recurse(p)
\* where `recurse` is the expression that stands for the function itself.
FactStep(recurse) ==
    Lambda("self", Lambda("n",
        Application(
            Application(Variable("n"),
                        Lambda("p", Then(Emit("*"), Application(recurse, Variable("p"))))),
            Const(String("1")))))

\* Recursion through the self-reference marker: (Fix f) 3.
ProgFixFact == Application(Application(Fix, FactStep(Variable("self"))), Three)
\* Recursion through explicit self application: (f f) 3 with recurse = self self.
ProgSelfFact ==
    Application(
        Application(Lambda("f", Application(Variable("f"), Variable("f"))),
                    FactStep(Application(Variable("self"), Variable("self")))),
        Three)
\* Fix applied to a function that never uses its argument.
ProgFixConst == Application(Fix, Lambda("self", Const(Int(6))))
ProgFixUndefined == Application(Fix, Variable("undefined_var"))
ProgFixAlone == Fix

\* Every small program over a handful of leaves: applications of a leaf or
\* lambda to a leaf or lambda, such applications applied once more, and
\* conditionals over them.
Leaves ==
    { Fix, Variable("true"), Variable("content"), Variable("location"), Variable("x"),
      Const(Int(1)), Const(String("s")) }
Lambdas ==
    { Lambda("x", b) : b \in Leaves \cup { Application(Variable("x"), Variable("x")),
                                           Application(Variable("content"), Variable("x")) } }
Terms == Leaves \cup Lambdas
Applications == { Application(f, x) : f \in Terms, x \in Terms }
Effects == { Emit("t"), Variable("x"), Const(Int(1)) }
GeneratedPrograms ==
    Applications
    \cup { Application(a, x) : a \in Applications, x \in Effects }
    \cup { Application(f, a) : f \in Effects, a \in Applications }
    \cup { Cond(c, t, e) : c \in Terms \cup { Variable("false") }, t \in Effects, e \in Effects }

NamedPrograms ==
    { ProgContentLocation, ProgLocationOfContent, ProgEmitThree, ProgUndefined,
      ProgUndefinedLate, ProgCondInt, ProgCondIntEffects, ProgCondTrue, ProgCondFalse,
      ProgCondEffect, ProgCondFunction, ProgCondError, ProgOrder, ProgOrderArgFails,
      ProgOrderFnFails, ProgNotCallableInt, ProgNotCallableOpaque, ProgSize,
      ProgPercent, ProgContentInt, ProgShadow, ProgShadowError, ProgClosures,
      ProgClosuresReversed, ProgReentrant, ProgSelfArgument, ProgFixFact,
      ProgSelfFact, ProgFixConst, ProgFixUndefined, ProgFixAlone }

Programs == NamedPrograms \cup GeneratedPrograms

(* ------------------------------------------------------------------ *)
(* State                                                                *)
(* ------------------------------------------------------------------ *)

VARIABLES
    prog,           \* compile's argument `ast`
    pc,             \* where compile is: "loop", "interpret", "done", "panicked"
    i,              \* compile's loop counter
    document_size,  \* compile's local document_size
    out,            \* compile's local out: Option<Vec<String>>
    context,        \* the pass's root Context, owned by compile
    state,          \* the pass's State
    heap,           \* the RefCell<Context> cells allocated by Lambda in this pass:
                    \* ctx is the Context, borrowed whether a RefMut is alive, and
                    \* captured records the Context as it was cloned
    stack,          \* the activations of interpret, outermost first
    ret,            \* the Result a callee has just returned
    result,         \* what compile returned
    panic,          \* the panic message once the process has panicked
    passLogs        \* history: state.content at the end of each completed pass

vars == <<prog, pc, i, document_size, out, context, state, heap, stack, ret,
          result, panic, passLogs>>

None == [some |-> FALSE, val |-> <<>>]
Some(v) == [some |-> TRUE, val |-> v]

\* One activation of interpret(ast, context, state).  `ctx` names the Context
\* the activation was handed: 0 is compile's root context, k > 0 is heap[k].
\* `arg`, `cell`, `var`, `save` are the locals of the Application arm and of
\* the with_var call it makes; `entry` records the closure context as it was
\* when with_var was entered.
Frame(ast, ctx) ==
    [ast |-> ast, ctx |-> ctx, at |-> "start", arg |-> NoValue, cell |-> 0,
     var |-> "", save |-> [some |-> FALSE, val |-> NoValue], entry |-> ContextNew]

Top == stack[Len(stack)]
Pop == SubSeq(stack, 1, Len(stack) - 1)
SetTop(f) == [stack EXCEPT ![Len(stack)] = f]

\* The Context a frame's `context` parameter refers to.
ContextOf(c) == IF c = 0 THEN context ELSE heap[c].ctx

Running == pc = "interpret" /\ stack # <<>>
Starting(tag) == Running /\ ret = NoRet /\ Top.at = "start" /\ Top.ast.tag = tag
Resumed(at) == Running /\ ret # NoRet /\ Top.at = at

Init ==
    /\ prog \in Programs
    /\ pc = "loop"
    /\ i = 0
    /\ document_size = 0
    /\ out = None
    /\ context = ContextNew
    /\ state = InitialState(0)
    /\ heap = <<>>
    /\ stack = <<>>
    /\ ret = NoRet
    /\ result = NoRet
    /\ panic = "none"
    /\ passLogs = <<>>

(* ------------------------------------------------------------------ *)
(* fn interpret, one action per step of each match arm                  *)
(* ------------------------------------------------------------------ *)

\* The running activation (updated to `caller`) calls interpret(ast, ctx, state).
\* The native stack is finite: a call beyond it aborts the process.
CallInterpret(caller, ast, ctx) ==
    IF Len(stack) >= MaxDepth
    THEN /\ pc' = "panicked"
         /\ panic' = "stack overflow"
         /\ UNCHANGED <<stack, ret>>
    ELSE /\ stack' = Append(SetTop(caller), Frame(ast, ctx))
         /\ ret' = NoRet
         /\ UNCHANGED <<pc, panic>>

\* The running activation returns `r` to its caller.
Return(r) ==
    /\ stack' = Pop
    /\ ret' = r

\* Variant of Capture that clones the pass's root Context.
CaptureRoot(c) == context

\* The Context captured by Ast::Lambda: context.clone().
Capture(c) == ContextOf(c)

\* Ast::Lambda(bound_var, body) => Ok(Value::Function(Rc::new(RefCell::new(context.clone())), ..))
InterpretLambda ==
    /\ Starting("Lambda")
    /\ heap' = Append(heap, [ctx |-> Capture(Top.ctx), borrowed |-> FALSE,
                             captured |-> ContextOf(Top.ctx)])
    /\ Return(Ok(Function(Len(heap) + 1, Top.ast.var, Top.ast.body)))
    /\ UNCHANGED <<prog, pc, i, document_size, out, context, state, result, panic, passLogs>>

\* Ast::Fix => Ok(Value::Fix)
InterpretFix ==
    /\ Starting("Fix")
    /\ Return(Ok(FixV))
    /\ UNCHANGED <<prog, pc, i, document_size, out, context, state, heap, result, panic, passLogs>>

\* Ast::Variable(var) => context.lookup(var), cloned, or NotInScope
InterpretVariable ==
    /\ Starting("Variable")
    /\ Return(Lookup(ContextOf(Top.ctx), Top.ast.var))
    /\ UNCHANGED <<prog, pc, i, document_size, out, context, state, heap, result, panic, passLogs>>

\* Ast::Const(val) => Ok(val.clone())
InterpretConst ==
    /\ Starting("Const")
    /\ Return(Ok(Top.ast.val))
    /\ UNCHANGED <<prog, pc, i, document_size, out, context, state, heap, result, panic, passLogs>>

\* Variant of ApplicationFirst that starts with the function side.
ApplicationFirstIsFunction(ast) == ast.f

\* The sub-expression of Application(f, x) that is interpreted first.
ApplicationFirst(ast) == ast.x
\* The sub-expression of Application(f, x) that is interpreted second.
ApplicationSecond(ast) == ast.f

\* Ast::Application(f, x): let arg = interpret(x, context, state)
InterpretApplication ==
    /\ Starting("Application")
    /\ CallInterpret([Top EXCEPT !.at = "arg"], ApplicationFirst(Top.ast), Top.ctx)
    /\ UNCHANGED <<prog, i, document_size, out, context, state, heap, result, passLogs>>

\* `arg` is bound; match interpret(f, context, state)
ApplicationFunction ==
    /\ Resumed("arg")
    /\ ret.kind = "ok"
    /\ CallInterpret([Top EXCEPT !.at = "fn", !.arg = ret.v], ApplicationSecond(Top.ast), Top.ctx)
    /\ UNCHANGED <<prog, i, document_size, out, context, state, heap, result, passLogs>>

\* The `?` after interpret(x, ..), interpret(f, ..) and interpret(cond, ..):
\* an Err is returned to the caller at once.
PropagateError ==
    /\ Running
    /\ ret.kind = "err"
    /\ Top.at \in {"arg", "fn", "cond"}
    /\ Return(ret)
    /\ UNCHANGED <<prog, pc, i, document_size, out, context, state, heap, result, panic, passLogs>>

\* Value::BuiltinFunction(func) => func(arg, state)
ApplyBuiltinFunction ==
    /\ Resumed("fn")
    /\ ret.kind = "ok"
    /\ ret.v.tag = "BuiltinFunction"
    /\ LET r == CallBuiltin(ret.v.name, Top.arg, state) IN
        IF r.panic # "none"
        THEN /\ pc' = "panicked"
             /\ panic' = r.panic
             /\ UNCHANGED <<stack, ret, state>>
        ELSE /\ state' = r.state
             /\ Return(r.ret)
             /\ UNCHANGED <<pc, panic>>
    /\ UNCHANGED <<prog, i, document_size, out, context, heap, result, passLogs>>

\* Value::Function(closure_context, bound_var, body) =>
\*     closure_context.borrow_mut().with_var(&bound_var, arg, |context| interpret(&body, context, state))
\* borrow_mut panics when the cell is already mutably borrowed.
ApplyFunction ==
    /\ Resumed("fn")
    /\ ret.kind = "ok"
    /\ ret.v.tag = "Function"
    /\ LET cell == ret.v.cell
            var == ret.v.var
            m == heap[cell].ctx
        IN IF heap[cell].borrowed
           THEN /\ pc' = "panicked"
                /\ panic' = "already borrowed: BorrowMutError"
                /\ UNCHANGED <<stack, ret, heap>>
           ELSE /\ heap' = [heap EXCEPT ![cell].ctx = WithVarEnter(m, var, Top.arg),
                                        ![cell].borrowed = TRUE]
                /\ CallInterpret([Top EXCEPT !.at = "body", !.cell = cell, !.var = var,
                                              !.save = WithVarSave(m, var), !.entry = m],
                                 ret.v.body, cell)
    /\ UNCHANGED <<prog, i, document_size, out, context, state, result, passLogs>>

\* with_var after func returned: restore the binding, drop the RefMut, return `out`.
FunctionReturn ==
    /\ Resumed("body")
    /\ heap' = [heap EXCEPT ![Top.cell].ctx = WithVarExit(@, Top.var, Top.save),
                            ![Top.cell].borrowed = FALSE]
    /\ Return(ret)
    /\ UNCHANGED <<prog, pc, i, document_size, out, context, state, result, panic, passLogs>>

\* The expression Value::Fix re-interprets:
\* Ast::Application(Box::new(Ast::Const(arg)), Box::new(ast.clone()))
FixExpansion(arg, ast) == Application(Const(arg), ast)

\* Value::Fix => interpret(&Ast::Application(Const(arg), ast.clone()), context, state)
ApplyFix ==
    /\ Resumed("fn")
    /\ ret.kind = "ok"
    /\ ret.v.tag = "Fix"
    /\ CallInterpret([Top EXCEPT !.at = "tail"], FixExpansion(Top.arg, Top.ast), Top.ctx)
    /\ UNCHANGED <<prog, i, document_size, out, context, state, heap, result, passLogs>>

\* val @ (BuiltinValue | Bool | Int | String) => Err(Error::NotACallableValue(val))
ApplyNotCallable ==
    /\ Resumed("fn")
    /\ ret.kind = "ok"
    /\ ret.v.tag \in {"BuiltinValue", "Bool", "Int", "String"}
    /\ Return(Err(NotACallableValue(ret.v)))
    /\ UNCHANGED <<prog, pc, i, document_size, out, context, state, heap, result, panic, passLogs>>

\* Ast::Cond(cond, then, else) => match interpret(cond, context, state)?
InterpretCond ==
    /\ Starting("Cond")
    /\ CallInterpret([Top EXCEPT !.at = "cond"], Top.ast.cond, Top.ctx)
    /\ UNCHANGED <<prog, i, document_size, out, context, state, heap, result, passLogs>>

\* Variant of CondBranch with the branches exchanged.
CondBranchSwapped(ast, b) == IF b THEN ast.else ELSE ast.then

\* The branch Value::Bool(b) selects: if b { then } else { r#else }
CondBranch(ast, b) == IF b THEN ast.then ELSE ast.else

\* Value::Bool(b) => interpret(if b { then } else { r#else }, context, state)
CondBool ==
    /\ Resumed("cond")
    /\ ret.kind = "ok"
    /\ ret.v.tag = "Bool"
    /\ CallInterpret([Top EXCEPT !.at = "tail"], CondBranch(Top.ast, ret.v.b), Top.ctx)
    /\ UNCHANGED <<prog, i, document_size, out, context, state, heap, result, passLogs>>

\* val @ (BuiltinFunction | Fix | BuiltinValue | Function | Int | String) => Err(NotABoolValue(val))
CondNotABool ==
    /\ Resumed("cond")
    /\ ret.kind = "ok"
    /\ ret.v.tag # "Bool"
    /\ Return(Err(NotABoolValue(ret.v)))
    /\ UNCHANGED <<prog, pc, i, document_size, out, context, state, heap, result, panic, passLogs>>

\* The nested interpret of the Fix arm or of a Cond branch returned: its
\* Result is this activation's Result.
TailReturn ==
    /\ Resumed("tail")
    /\ Return(ret)
    /\ UNCHANGED <<prog, pc, i, document_size, out, context, state, heap, result, panic, passLogs>>

(* ------------------------------------------------------------------ *)
(* fn compile                                                           *)
(* ------------------------------------------------------------------ *)

\* Loop head: let (mut context, mut state) = initialize(document_size);
\* then interpret(ast, &mut context, &mut state) is called.
CompileIteration ==
    /\ pc = "loop"
    /\ context' = InitialContext
    /\ state' = InitialState(document_size)
    /\ heap' = <<>>
    /\ stack' = <<Frame(prog, 0)>>
    /\ ret' = NoRet
    /\ pc' = "interpret"
    /\ UNCHANGED <<prog, i, document_size, out, result, panic, passLogs>>

\* Variant of CompileError that goes on to the next pass.
CompileErrorRetry ==
    /\ pc = "interpret"
    /\ stack = <<>>
    /\ ret.kind = "err"
    /\ i + 1 < MaxIterations
    /\ i' = i + 1
    /\ pc' = "loop"
    /\ UNCHANGED <<prog, document_size, out, context, state, heap, stack, ret, result, panic, passLogs>>

\* interpret(..)? returned Err: compile returns it.
CompileError ==
    /\ pc = "interpret"
    /\ stack = <<>>
    /\ ret.kind = "err"
    /\ result' = ret
    /\ pc' = "done"
    /\ UNCHANGED <<prog, i, document_size, out, context, state, heap, stack, ret, panic, passLogs>>

\* Variant of Converged that never reports convergence.
ConvergedNever(old, new_out) == FALSE

\* `out == new_out`: whether the pass converged.
Converged(old, new_out) == old = new_out

\* interpret returned Ok: compare the log with the previous pass, break or
\* go round again; after the loop, Ok(out.unwrap()).
CompilePassEnd ==
    /\ pc = "interpret"
    /\ stack = <<>>
    /\ ret.kind = "ok"
    /\ passLogs' = Append(passLogs, state.content)
    /\ LET new_out == Some(state.content) IN
        IF Converged(out, new_out)
        THEN /\ result' = Ok(out.val)
             /\ pc' = "done"
             /\ UNCHANGED <<out, document_size, i>>
        ELSE /\ out' = new_out
             /\ document_size' = state.document_size
             /\ i' = i + 1
             /\ IF i + 1 < MaxIterations
                THEN pc' = "loop" /\ result' = result
                ELSE pc' = "done" /\ result' = Ok(new_out.val)
    /\ UNCHANGED <<prog, context, state, heap, stack, ret, panic>>

Next ==
    \/ CompileIteration
    \/ InterpretLambda
    \/ InterpretFix
    \/ InterpretVariable
    \/ InterpretConst
    \/ InterpretApplication
    \/ ApplicationFunction
    \/ PropagateError
    \/ ApplyBuiltinFunction
    \/ ApplyFunction
    \/ FunctionReturn
    \/ ApplyFix
    \/ ApplyNotCallable
    \/ InterpretCond
    \/ CondBool
    \/ CondNotABool
    \/ TailReturn
    \/ CompileError
    \/ CompilePassEnd

Spec == Init /\ [][Next]_vars

(* ------------------------------------------------------------------ *)
(* Context::with_var on its own: nested calls on one Context            *)
(* ------------------------------------------------------------------ *)

\* Depth of nested with_var calls on the same Context.
MaxNest == 3

HarnessVars == {"x", "y"}
HarnessValues == {Int(1), Int(2)}
\* Every Context over HarnessVars: each variable unbound or bound to a value.
HarnessContexts ==
    UNION { [d -> HarnessValues] : d \in SUBSET HarnessVars }
\* What `func` may return: with_var is generic in T, here a Result.
HarnessOuts == {Ok(Int(1)), Err(NotInScope("z"))}

WithVarInit ==
    /\ prog = Fix
    /\ pc = "with_var"
    /\ i = 0
    /\ document_size = 0
    /\ out = None
    /\ context \in HarnessContexts
    /\ state = InitialState(0)
    /\ heap = <<>>
    /\ stack = <<>>
    /\ ret = NoRet
    /\ result = NoRet
    /\ panic = "none"
    /\ passLogs = <<>>

\* with_var(var, value, func) up to the call of func: save, insert.
WithVarCall ==
    /\ pc = "with_var"
    /\ Len(stack) < MaxNest
    /\ \E var \in HarnessVars, value \in HarnessValues :
        /\ context' = WithVarEnter(context, var, value)
        /\ stack' = Append(stack, [Frame(Fix, 0) EXCEPT !.at = "body", !.var = var,
                                       !.arg = value,
                                       !.save = WithVarSave(context, var),
                                       !.entry = context])
    /\ ret' = NoRet
    /\ UNCHANGED <<prog, pc, i, document_size, out, state, heap, result, panic, passLogs>>

\* func returned `o`: with_var restores the binding and returns `o`.
WithVarReturn ==
    /\ pc = "with_var"
    /\ stack # <<>>
    /\ context' = WithVarExit(context, Top.var, Top.save)
    /\ stack' = Pop
    /\ \E o \in HarnessOuts : ret' = o
    /\ UNCHANGED <<prog, pc, i, document_size, out, state, heap, result, panic, passLogs>>

WithVarNext == WithVarCall \/ WithVarReturn

WithVarSpec == WithVarInit /\ [][WithVarNext]_vars

(* ------------------------------------------------------------------ *)
(* Properties                                                           *)
(* ------------------------------------------------------------------ *)

Done == pc = "done"
\* interpret has returned to compile with Result `ret`.
PassReturned == pc = "interpret" /\ stack = <<>> /\ ret # NoRet

\* The factorial-style recursion written with explicit self application
\* reaches its base case after 3 levels and fits the stack.
SelfApplicationTerminates ==
    /\ prog = ProgSelfFact => pc # "panicked"
    /\ (prog = ProgSelfFact /\ Done) => result = Ok(<<"*", "*", "*">>)

\* C1: applying the self-reference marker to a factorial-style function whose
\* recursion reaches its base case after 3 levels terminates with the value
\* instead of unrolling forever: compile of (Fix f) 3 never exhausts the
\* stack, and when it is done it has logged the three recursive steps.
C1_FixUnrollsAndTerminates ==
    /\ prog = ProgFixFact => panic # "stack overflow"
    /\ (prog = ProgFixFact /\ Done) => result = Ok(<<"*", "*", "*">>)

\* C2: when no pass fails, compile stops at the first pass whose log equals
\* the log of the pass before it and returns that log; if the budget of
\* MaxIterations passes runs out first it returns the last pass's log, and
\* it returns an error only when a pass returned one.
C2_StopsAtFirstRepeatedLog ==
    LET n == Len(passLogs) IN
    /\ n <= MaxIterations
    /\ \A k \in 2..n : passLogs[k] = passLogs[k - 1] => (k = n /\ Done)
    /\ (Done /\ result.kind = "ok") =>
          /\ n >= 1
          /\ result.v = passLogs[n]
          /\ (n >= 2 /\ passLogs[n] = passLogs[n - 1]) \/ n = MaxIterations
    /\ (Done /\ result.kind = "err") => (ret.kind = "err" /\ stack = <<>>)
    /\ Done => result.kind # "none"

C2_Witness ==
    /\ Done
    /\ result = Ok(<<"X", "F", "X">>)
    /\ passLogs = << <<"X", "F", "X">>, <<"X", "F", "X">> >>

\* C3: when with_var returns, whatever its body returned and however deeply
\* with_var calls are nested, the Context is identical to the Context at the
\* time of the call: the variable has its prior value or is absent again,
\* and every other binding is unchanged.
C3_WithVarRestores ==
    [][(pc = "with_var" /\ stack # <<>> /\ Len(stack') < Len(stack))
          => context' = Top.entry]_vars

\* A nested with_var on a variable that was unbound has returned an Err into
\* the body of an outer with_var on the same variable, at depth 2.
C3_Witness ==
    /\ pc = "with_var"
    /\ Len(stack) = 2
    /\ ret.kind = "err"
    /\ stack[1].var = "x" /\ ~stack[1].save.some
    /\ stack[2].var = "y" /\ stack[2].save.some
    /\ context = WithVarEnter(stack[2].entry, "y", stack[2].arg)
    /\ stack[2].entry = WithVarEnter(stack[1].entry, "x", stack[1].arg)

\* C4: a closure observes the environment as it was when its Lambda was
\* evaluated: outside an application its cell holds exactly the captured
\* Context, inside one exactly the captured Context plus the parameter; two
\* closures made from one Lambda under different bindings of x each return
\* their own x, in either order and repeatedly.
C4_ClosureIsolation ==
    /\ pc # "panicked" =>
         \A k \in 1..Len(heap) :
            IF heap[k].borrowed
            THEN \E j \in 1..Len(stack) :
                    /\ stack[j].at = "body"
                    /\ stack[j].cell = k
                    /\ heap[k].ctx = WithVarEnter(heap[k].captured, stack[j].var, stack[j].arg)
            ELSE heap[k].ctx = heap[k].captured
    /\ prog \in {ProgClosures, ProgClosuresReversed} => pc # "panicked"
    /\ (prog = ProgClosures /\ Done) => result = Ok(<<"a", "b", "a", "b">>)
    /\ (prog = ProgClosuresReversed /\ Done) => result = Ok(<<"b", "a", "b">>)

C4_Witness ==
    /\ prog = ProgClosures
    /\ Done
    /\ result = Ok(<<"a", "b", "a", "b">>)

\* C5: in Application(f, x) the argument x is evaluated completely before f
\* is evaluated at all: the activation first waits for x, starts f only
\* with the argument value in hand, and when x fails returns that error
\* with none of f's effects in the log.
C5_ArgumentBeforeFunction ==
    /\ \A k \in 1..(Len(stack) - 1) :
          stack[k].ast.tag = "Application" =>
            /\ (stack[k].at = "arg" =>
                  (stack[k + 1].ast = stack[k].ast.x /\ stack[k].arg = NoValue))
            /\ (stack[k].at = "fn" =>
                  (stack[k + 1].ast = stack[k].ast.f /\ stack[k].arg # NoValue))
    /\ (Resumed("arg") /\ ret.kind = "err") => Top.arg = NoValue
    /\ (prog = ProgOrder /\ Done) => result = Ok(<<"X", "F", "X">>)
    /\ (prog = ProgOrder /\ pc # "loop" /\ state.content # <<>>) => state.content[1] = "X"
    /\ prog = ProgOrderArgFails => state.content = <<>>
    /\ (prog.tag = "Application" /\ prog.x = Variable("x")) =>
          /\ state.content = <<>>
          /\ pc # "panicked"
          /\ Done => result = Err(NotInScope("x"))
    /\ (prog = ProgOrderArgFails /\ Done) => result = Err(NotInScope("undefined_var"))

C5_Witness ==
    /\ prog = ProgOrderArgFails
    /\ Done
    /\ result = Err(NotInScope("undefined_var"))
    /\ state.content = <<>>

\* C6: when the evaluation of a pass returns an Error, compile returns
\* exactly that error at once: no further pass is started and no log is
\* returned.
C6_ErrorAbortsCompile ==
    /\ [][(PassReturned /\ ret.kind = "err")
            => (pc' = "done" /\ result' = ret /\ i' = i /\ passLogs' = passLogs)]_vars
    /\ []((prog = ProgUndefined /\ Done)
            => (result = Err(NotInScope("undefined_var")) /\ i = 0 /\ passLogs = <<>>))

C6_Witness ==
    /\ prog = ProgUndefined
    /\ Done
    /\ result = Err(NotInScope("undefined_var"))
    /\ i = 0

ContentCall == Resumed("fn") /\ ret = Ok(BuiltinFunction("content"))
LocationCall == Resumed("fn") /\ ret = Ok(BuiltinFunction("location"))

\* C7: within a pass the host log is exactly the string arguments of the
\* content calls in call order: a content call appends its argument, keeps
\* the earlier entries and returns the same string; location returns the
\* length of the log and leaves it alone; nothing else touches the log.
\* content "x" followed by location gives Int(1) and the log <<"x">>.
C7_HostLog ==
    /\ [][((ContentCall /\ Top.arg.tag = "String") =>
              (state'.content = Append(state.content, Top.arg.s) /\ ret' = Ok(Top.arg)))
          /\ (LocationCall =>
              (state' = state /\ ret' = Ok(Int(Len(state.content)))))
          /\ (~ContentCall =>
              (state'.content = state.content \/ (pc = "loop" /\ state'.content = <<>>)))]_vars
    /\ []((prog = ProgContentLocation /\ PassReturned)
            => (ret = Ok(Int(1)) /\ state.content = <<"x">>))
    /\ []((prog = ProgEmitThree /\ PassReturned)
            => (ret = Ok(String("c")) /\ state.content = <<"a", "b", "c">>))

C7_Witness ==
    /\ prog = ProgContentLocation
    /\ PassReturned
    /\ ret = Ok(Int(1))
    /\ state.content = <<"x">>

\* C8: for Cond(c, t, e), when c evaluates to Bool(b) exactly the branch b
\* selects is evaluated next and the other branch's effects never occur;
\* when c evaluates to a non-boolean v the result is NotABoolValue(v) and
\* neither branch is evaluated.
C8_CondDispatch ==
    /\ [][(Resumed("cond") /\ ret.kind = "ok") =>
             IF ret.v.tag = "Bool"
             THEN (pc' = "panicked" \/
                   (stack' = Append(SetTop([Top EXCEPT !.at = "tail"]),
                                    Frame(IF ret.v.b THEN Top.ast.then ELSE Top.ast.else,
                                          Top.ctx))
                    /\ state' = state))
             ELSE (stack' = Pop /\ ret' = Err(NotABoolValue(ret.v)) /\ state' = state)]_vars
    /\ [](\A k \in 1..(Len(stack) - 1) :
             (stack[k].ast.tag = "Cond" /\ stack[k].at = "tail") =>
                stack[k + 1].ast \in {stack[k].ast.then, stack[k].ast.else})
    /\ [](prog = ProgCondTrue => state.content \in {<<>>, <<"t">>})
    /\ [](prog = ProgCondFalse => state.content \in {<<>>, <<"e">>})
    /\ []((prog = ProgCondTrue /\ Done) => result = Ok(<<"t">>))
    /\ []((prog = ProgCondFalse /\ Done) => result = Ok(<<"e">>))
    /\ [](prog = ProgCondIntEffects => state.content = <<>>)
    /\ []((prog \in {ProgCondInt, ProgCondIntEffects} /\ Done)
            => result = Err(NotABoolValue(Int(1))))

C8_Witness ==
    /\ prog = ProgCondIntEffects
    /\ Done
    /\ result = Err(NotABoolValue(Int(1)))
    /\ state.content = <<>>

\* C9: applying a closure value while an application of the same closure
\* value is still evaluating its body never hits a double-borrow fault.
C9_NoDoubleBorrow == panic # "already borrowed: BorrowMutError"

\* C10: no evaluation step or builtin changes the host parameter, so it is 0
\* throughout every pass; hence whenever compile returns a log it ran
\* exactly two passes and the log is the first pass's.
C10_ParameterFixedTwoPasses ==
    /\ state.document_size = 0
    /\ document_size = 0
    /\ (Done /\ result.kind = "ok") =>
          /\ Len(passLogs) = 2
          /\ i = 1
          /\ result.v = passLogs[1]

C10_Witness ==
    /\ prog = ProgEmitThree
    /\ Done
    /\ Len(passLogs) = 2
    /\ result = Ok(<<"a", "b", "c">>)
    /\ state.document_size = 0

====
